---- MODULE Spec2Model ----
(***************************************************************************)
(* Model of the aggregation route index() of app.py and of the service     *)
(* functions it calls (ConcertService, WeatherService, SpotifyService and  *)
(* the Google Maps geocoding client).                                      *)
(*                                                                         *)
(* One request is followed from entry to its end.  The handler blocks on   *)
(* every provider call, so the position of the handler (pc) advances one   *)
(* lookup at a time; the answer of each provider is chosen by the          *)
(* environment.  A Python dict key that may be missing is an optional      *)
(* value: <<>> when the key is absent, <<v>> when it is present.           *)
(* Free text that the code transforms (the artist name, the weather        *)
(* description) is a sequence of one-character strings.                    *)
(***************************************************************************)
EXTENDS Integers, Sequences, FiniteSets, TLC

VARIABLES pc, method, form, artist_name, artist_info, top_tracks, events,
          events_with_playlists, idx, city, latlng, result, raised, calls, net

vars == <<pc, method, form, artist_name, artist_info, top_tracks, events,
          events_with_playlists, idx, city, latlng, result, raised, calls, net>>

-----------------------------------------------------------------------------
(* Bounds and program constants *)

\* Longest event list the ticketing provider answers with in the model.
MaxEvents == 2

\* app.py:44, sent to the provider as the page size.
MAX_RESULTS == 9

-----------------------------------------------------------------------------
(* Python values *)

None == [none |-> TRUE]

\* the empty dict {} used as the default of artist_info.get("playlist", {})
EMPTY_DICT == [empty |-> TRUE]

\* dict.get(key, default) on an optional value
Get(opt, default) == IF opt = <<>> THEN default ELSE opt[1]

\* characters str.strip() removes (a subset of Python's whitespace)
Whitespace == {" ", "\t"}

RECURSIVE lstrip(_)
lstrip(s) == IF s # <<>> /\ Head(s) \in Whitespace THEN lstrip(Tail(s)) ELSE s

RECURSIVE rstrip(_)
rstrip(s) ==
    IF s # <<>> /\ s[Len(s)] \in Whitespace
    THEN rstrip(SubSeq(s, 1, Len(s) - 1))
    ELSE s

strip_none(s) == s

\* str.strip(): leading and trailing whitespace removed
strip(s) == rstrip(lstrip(s))

Upper(c) == CASE c = "n" -> "N" [] c = "u" -> "U" [] c = "b" -> "B" [] OTHER -> c

Lower(c) == CASE c = "N" -> "n" [] c = "U" -> "u" [] c = "B" -> "b" [] OTHER -> c

\* str.capitalize(): first character upper case, all others lower case
capitalize(s) ==
    [i \in 1..Len(s) |-> IF i = 1 THEN Upper(s[i]) ELSE Lower(s[i])]

\* round(x, 1) for x given in hundredths, result in tenths; ties go to the
\* even digit, as Python does for values that are exact in binary (k/4).
round1(h) ==
    LET q == h \div 10
        r == h % 10
    IN  IF r > 5 \/ (r = 5 /\ q % 2 = 1) THEN q + 1 ELSE q

-----------------------------------------------------------------------------
(* Submitted requests *)

Methods == {"GET", "POST"}

\* request.form's "artista" field: absent, or the submitted text
Forms ==
    { <<>>,
      << <<>> >>,
      << <<" ">> >>,
      << <<" ", "\t">> >>,
      << <<"a">> >>,
      << <<" ", "a", "\t">> >>,
      << <<"a", " ", "b">> >> }

-----------------------------------------------------------------------------
(* Fixed texts of the code *)

CIUDAD_DESCONOCIDA == "Ciudad desconocida"

FECHA_NO_DISPONIBLE == "Fecha no disponible"

LUGAR_NO_DISPONIBLE == "Lugar no disponible"

NO_URL == "#"

NA == [str |-> "N/A"]

CIUDAD_NO_ESPECIFICADA ==
    <<"C","i","u","d","a","d"," ","n","o"," ",
      "e","s","p","e","c","i","f","i","c","a","d","a">>

DATOS_NO_DISPONIBLES ==
    <<"D","a","t","o","s"," ","n","o"," ",
      "d","i","s","p","o","n","i","b","l","e","s">>

NoSnapshot == [nothing |-> TRUE]

-----------------------------------------------------------------------------
(* Provider answers *)

\* artist items of the music-metadata search: "genres" may be missing,
\* empty, or list several genres
Artists ==
    { [id |-> "A1", genres |-> <<>>, playlist |-> <<>>],
      [id |-> "A2", genres |-> << <<>> >>, playlist |-> <<>>],
      [id |-> "A3", genres |-> << <<"rock", "pop">> >>, playlist |-> <<>>] }

\* token request and search request of get_artist_info
ArtistResponses ==
    { [auth |-> "error", search |-> "error", items |-> <<>>],
      [auth |-> "ok", search |-> "error", items |-> <<>>],
      [auth |-> "ok", search |-> "ok", items |-> <<>>] }
    \cup { [auth |-> "ok", search |-> "ok", items |-> <<a>>] : a \in Artists }

TrackResponses ==
    { [auth |-> "error", request |-> "error", tracks |-> <<>>],
      [auth |-> "ok", request |-> "error", tracks |-> <<>>],
      [auth |-> "ok", request |-> "ok", tracks |-> <<"t1", "t2">>] }

P1 == [id |-> "p1"]

P2 == [id |-> "p2"]

PlaylistResponses ==
    { [auth |-> "error", request |-> "error", items |-> <<>>],
      [auth |-> "ok", request |-> "error", items |-> <<>>],
      [auth |-> "ok", request |-> "ok", items |-> <<>>],
      [auth |-> "ok", request |-> "ok", items |-> <<P1, P2>>] }

\* raw events of the ticketing provider
EventFull ==
    [embedded |-> << [venues |-> << << [name |-> <<"Arena">>,
                                        city |-> << [name |-> <<"CityA">>] >>] >> >>] >>,
     dates |-> << [start |-> << [localDate |-> <<"2026-12-01">>] >>] >>,
     url |-> <<"u1">>]

EventBlankCity ==
    [embedded |-> << [venues |-> << << [name |-> <<"Hall">>,
                                        city |-> << [name |-> <<"">>] >>] >> >>] >>,
     dates |-> << [start |-> << [localDate |-> <<"2026-12-05">>] >>] >>,
     url |-> <<"u2">>]

EventNoCity ==
    [embedded |-> << [venues |-> << << [name |-> <<"Club">>, city |-> <<>>] >> >>] >>,
     dates |-> << [start |-> <<>>] >>,
     url |-> <<>>]

EventNoEmbedded ==
    [embedded |-> <<>>, dates |-> <<>>, url |-> <<"u4">>]

EventNoVenues ==
    [embedded |-> << [venues |-> << <<>> >>] >>,
     dates |-> << [start |-> << [localDate |-> <<"2026-12-09">>] >>] >>,
     url |-> <<"u5">>]

RawEvents ==
    {EventFull, EventBlankCity, EventNoCity, EventNoEmbedded, EventNoVenues}

Min(a, b) == IF a < b THEN a ELSE b

\* event lists the provider can answer with: at most the requested page size
EventLists ==
    UNION { [1..n -> RawEvents] : n \in 0..Min(MaxEvents, MAX_RESULTS) }

\* "error": transport failure, timeout, HTTP error status or unparsable body;
\* "ok": a parsed JSON object, with or without "_embedded"
EventResponses ==
    { [status |-> "error", embedded |-> <<>>],
      [status |-> "ok", embedded |-> <<>>] }
    \cup { [status |-> "ok", embedded |-> << [events |-> <<l>>] >>] : l \in EventLists }

\* answers of the geocoding client: an exception of the client library
\* (transport error, timeout, API error status) or a candidate list
GeocodeOutcomes ==
    { [raised |-> "googlemaps.exceptions.TransportError", results |-> <<>>],
      [raised |-> "", results |-> <<>>],
      [raised |-> "", results |-> << [lat |-> 19, lng |-> -99], [lat |-> 0, lng |-> 0] >>] }

\* answers of the weather provider; temperatures in hundredths of a degree
WeatherResponses ==
    { [status |-> "error", weather |-> <<>>, main |-> <<>>],
      [status |-> "ok",
       weather |-> << << [description |-> << <<"n", "U", "b">> >>] >> >>,
       main |-> << [temp |-> <<2225>>] >>],
      [status |-> "ok",
       weather |-> <<>>,
       main |-> << [temp |-> <<2225>>] >>],
      [status |-> "ok",
       weather |-> << <<>> >>,
       main |-> << [temp |-> <<2225>>] >>],
      [status |-> "ok",
       weather |-> << << [description |-> << <<"n", "U", "b">> >>] >> >>,
       main |-> << [temp |-> <<>>] >>] }

-----------------------------------------------------------------------------
(* Network requests, as entries of the request log *)

Req(p, a) == [provider |-> p, arg |-> a]

TokenReq == Req("spotify_token", "client_credentials")

-----------------------------------------------------------------------------
(* Services *)

\* ConcertService.get_events: the events of the answer, [] on any failure
get_events(name, resp) ==
    [net |-> <<Req("ticketmaster_events", [keyword |-> name, size |-> MAX_RESULTS])>>,
     ret |-> IF resp.status = "error"
             THEN <<>>
             ELSE Get(Get(resp.embedded, [events |-> <<>>]).events, <<>>)]

CityNotSpecified ==
    [net |-> <<>>, raised |-> "",
     ret |-> [description |-> CIUDAD_NO_ESPECIFICADA, temperature |-> NA]]

\* the request of get_weather and the mapping of its answer
fetch_weather(c, resp) ==
    IF resp.status = "error"
    THEN [net |-> <<Req("openweather", c)>>, raised |-> "",
          ret |-> [description |-> DATOS_NO_DISPONIBLES, temperature |-> NA]]
    ELSE IF resp.weather = <<>>
    THEN [net |-> <<Req("openweather", c)>>, raised |-> "KeyError",
          ret |-> NoSnapshot]
    ELSE IF resp.weather[1] = <<>>
    THEN [net |-> <<Req("openweather", c)>>, raised |-> "IndexError",
          ret |-> NoSnapshot]
    ELSE IF resp.weather[1][1].description = <<>>
            \/ resp.main = <<>> \/ resp.main[1].temp = <<>>
    THEN [net |-> <<Req("openweather", c)>>, raised |-> "KeyError",
          ret |-> NoSnapshot]
    ELSE [net |-> <<Req("openweather", c)>>, raised |-> "",
          ret |-> [description |-> capitalize(resp.weather[1][1].description[1]),
                   temperature |-> [num |-> round1(resp.main[1].temp[1])]]]

get_weather_no_sentinel(c, resp) ==
    IF c = "" THEN CityNotSpecified ELSE fetch_weather(c, resp)

\* WeatherService.get_weather
get_weather(c, resp) ==
    IF c = "" \/ c = CIUDAD_DESCONOCIDA
    THEN CityNotSpecified
    ELSE fetch_weather(c, resp)

\* SpotifyService.get_artist_info: the first item, None on failure or no match
get_artist_info(name, resp) ==
    IF resp.auth = "error"
    THEN [net |-> <<TokenReq>>, ret |-> None]
    ELSE IF resp.search = "error"
    THEN [net |-> <<TokenReq, Req("spotify_artist_search", name)>>, ret |-> None]
    ELSE [net |-> <<TokenReq, Req("spotify_artist_search", name)>>,
          ret |-> IF resp.items # <<>> THEN resp.items[1] ELSE None]

\* SpotifyService.get_top_tracks
get_top_tracks(artist_id, resp) ==
    IF resp.auth = "error"
    THEN [net |-> <<TokenReq>>, ret |-> <<>>]
    ELSE IF resp.request = "error"
    THEN [net |-> <<TokenReq, Req("spotify_top_tracks", artist_id)>>, ret |-> <<>>]
    ELSE [net |-> <<TokenReq, Req("spotify_top_tracks", artist_id)>>,
          ret |-> resp.tracks]

\* SpotifyService.get_playlists_by_genre
get_playlists_by_genre(genre, resp) ==
    IF resp.auth = "error"
    THEN [net |-> <<TokenReq>>, ret |-> <<>>]
    ELSE IF resp.request = "error"
    THEN [net |-> <<TokenReq, Req("spotify_playlist_search", genre)>>, ret |-> <<>>]
    ELSE [net |-> <<TokenReq, Req("spotify_playlist_search", genre)>>,
          ret |-> resp.items]

-----------------------------------------------------------------------------
(* Pieces of index() *)

\* event.get("_embedded", {}).get("venues", [{}])
VenuesOf(event) ==
    Get(Get(event.embedded, [venues |-> <<>>]).venues,
        << [name |-> <<>>, city |-> <<>>] >>)

\* venue.get("city", {}).get("name", "Ciudad desconocida")
CityOf(venue) == Get(Get(venue.city, [name |-> <<>>]).name, CIUDAD_DESCONOCIDA)

\* event.get("dates", {}).get("start", {}).get("localDate", "Fecha no disponible")
DateOf(event) ==
    Get(Get(Get(event.dates, [start |-> <<>>]).start, [localDate |-> <<>>]).localDate,
        FECHA_NO_DISPONIBLE)

\* lat, lng of the first geocoding candidate, both None without candidate
LatLng(geocode_result) ==
    IF geocode_result # <<>>
    THEN [lat |-> <<geocode_result[1].lat>>, lng |-> <<geocode_result[1].lng>>]
    ELSE [lat |-> <<>>, lng |-> <<>>]

\* artist_info.get("playlist", {}) if artist_info else {}
PlaylistOf(info) ==
    IF info # None THEN Get(info.playlist, EMPTY_DICT) ELSE EMPTY_DICT

event_data_no_playlist(event, venue, c, weather_data, location, info) ==
    [city |-> c,
     date |-> DateOf(event),
     venue |-> Get(venue.name, LUGAR_NO_DISPONIBLE),
     tickets_url |-> Get(event.url, NO_URL),
     weather |-> weather_data,
     location |-> location,
     playlist |-> EMPTY_DICT]

\* the event_data dict of one event
event_data(event, venue, c, weather_data, location, info) ==
    [city |-> c,
     date |-> DateOf(event),
     venue |-> Get(venue.name, LUGAR_NO_DISPONIBLE),
     tickets_url |-> Get(event.url, NO_URL),
     weather |-> weather_data,
     location |-> location,
     playlist |-> PlaylistOf(info)]

NoResult == [kind |-> "none"]

\* GET: the empty form
RenderForm(name, info, tracks) ==
    [kind |-> "Form", artist_name |-> name, artist_info |-> info,
     top_tracks |-> tracks]

\* error="Please write an artist"
RenderEmptyInput == [kind |-> "EmptyInput"]

RenderNoEvents_no_tracks(name, info, tracks) ==
    [kind |-> "NoEventsFound", artist_name |-> name, artist_info |-> info,
     top_tracks |-> <<>>]

\* error="No concert found for ..." with the artist data resolved so far
RenderNoEvents(name, info, tracks) ==
    [kind |-> "NoEventsFound", artist_name |-> name, artist_info |-> info,
     top_tracks |-> tracks]

\* the result page with all events
RenderSuccess(evs, name, info, tracks) ==
    [kind |-> "Success", events |-> evs, artist_name |-> name,
     artist_info |-> info, top_tracks |-> tracks]

-----------------------------------------------------------------------------
(* The request *)

Init ==
    /\ pc = "start"
    /\ method = "GET"
    /\ form = <<>>
    /\ artist_name = <<>>
    /\ artist_info = None
    /\ top_tracks = <<>>
    /\ events = <<>>
    /\ events_with_playlists = <<>>
    /\ idx = 0
    /\ city = ""
    /\ latlng = [lat |-> <<>>, lng |-> <<>>]
    /\ result = NoResult
    /\ raised = ""
    /\ calls = <<>>
    /\ net = <<>>

\* index() up to the first lookup: method test, form field, trimming,
\* validation
Request ==
    /\ pc = "start"
    /\ \E m \in Methods, f \in Forms :
        /\ method' = m
        /\ form' = f
        /\ IF m = "POST"
           THEN LET name == strip(Get(f, <<>>))
                IN  /\ artist_name' = name
                    /\ IF name = <<>>
                       THEN /\ result' = RenderEmptyInput
                            /\ pc' = "done"
                       ELSE /\ result' = result
                            /\ pc' = "artist"
           ELSE /\ artist_name' = artist_name
                /\ result' = RenderForm(artist_name, artist_info, top_tracks)
                /\ pc' = "done"
    /\ UNCHANGED <<artist_info, top_tracks, events, events_with_playlists,
                   idx, city, latlng, raised, calls, net>>

\* artist_info = SpotifyService.get_artist_info(artist_name); if artist_info
ArtistLookup ==
    /\ pc = "artist"
    /\ \E resp \in ArtistResponses :
        LET r == get_artist_info(artist_name, resp)
        IN  /\ artist_info' = r.ret
            /\ net' = net \o r.net
            /\ calls' = Append(calls, [fn |-> "get_artist_info",
                                       arg |-> artist_name, ret |-> r.ret])
            /\ pc' = IF r.ret # None THEN "tracks" ELSE "events"
    /\ UNCHANGED <<method, form, artist_name, top_tracks, events,
                   events_with_playlists, idx, city, latlng, result, raised>>

\* top_tracks = get_top_tracks(artist_info["id"]); genres test
TrackLookup ==
    /\ pc = "tracks"
    /\ \E resp \in TrackResponses :
        LET r == get_top_tracks(artist_info.id, resp)
        IN  /\ top_tracks' = r.ret
            /\ net' = net \o r.net
            /\ calls' = Append(calls, [fn |-> "get_top_tracks",
                                       arg |-> artist_info.id, ret |-> r.ret])
    /\ pc' = IF Get(artist_info.genres, <<>>) # <<>> THEN "playlists" ELSE "events"
    /\ UNCHANGED <<method, form, artist_name, artist_info, events,
                   events_with_playlists, idx, city, latlng, result, raised>>

\* playlists of the first genre; random.choice attaches one to artist_info
PlaylistLookup ==
    /\ pc = "playlists"
    /\ \E resp \in PlaylistResponses :
        LET genre == Get(artist_info.genres, <<>>)[1]
            r == get_playlists_by_genre(genre, resp)
            call == [fn |-> "get_playlists_by_genre", arg |-> genre, ret |-> r.ret]
        IN  /\ net' = net \o r.net
            /\ IF r.ret # <<>>
               THEN \E k \in 1..Len(r.ret) :
                      /\ artist_info' = [artist_info EXCEPT !.playlist = <<r.ret[k]>>]
                      /\ calls' = calls \o <<call, [fn |-> "random.choice",
                                                    arg |-> r.ret, ret |-> r.ret[k]]>>
               ELSE /\ artist_info' = artist_info
                    /\ calls' = Append(calls, call)
    /\ pc' = "events"
    /\ UNCHANGED <<method, form, artist_name, top_tracks, events,
                   events_with_playlists, idx, city, latlng, result, raised>>

\* events = ConcertService.get_events(artist_name); if not events
EventLookup ==
    /\ pc = "events"
    /\ \E resp \in EventResponses :
        LET r == get_events(artist_name, resp)
        IN  /\ events' = r.ret
            /\ net' = net \o r.net
            /\ calls' = Append(calls, [fn |-> "get_events",
                                       arg |-> artist_name, ret |-> r.ret])
            /\ IF r.ret = <<>>
               THEN /\ result' = RenderNoEvents(artist_name, artist_info, top_tracks)
                    /\ pc' = "done"
                    /\ idx' = idx
               ELSE /\ result' = result
                    /\ pc' = "geocode"
                    /\ idx' = 1
    /\ UNCHANGED <<method, form, artist_name, artist_info, top_tracks,
                   events_with_playlists, city, latlng, raised>>

\* loop body, first half: venue, city, gmaps.geocode(city), lat and lng
GeoLookup ==
    /\ pc = "geocode"
    /\ LET venues == VenuesOf(events[idx])
       IN  IF venues = <<>>
           THEN /\ raised' = "IndexError"
                /\ pc' = "crashed"
                /\ UNCHANGED <<city, latlng, calls, net>>
           ELSE LET c == CityOf(venues[1])
                IN  \E g \in GeocodeOutcomes :
                      /\ city' = c
                      /\ net' = Append(net, Req("google_geocode", c))
                      /\ calls' = Append(calls, [fn |-> "geocode", arg |-> c,
                                                 event |-> idx, raised |-> g.raised,
                                                 ret |-> g.results])
                      /\ IF g.raised # ""
                         THEN /\ raised' = g.raised
                              /\ pc' = "crashed"
                              /\ latlng' = latlng
                         ELSE /\ raised' = raised
                              /\ pc' = "weather"
                              /\ latlng' = LatLng(g.results)
    /\ UNCHANGED <<method, form, artist_name, artist_info, top_tracks, events,
                   events_with_playlists, idx, result>>

\* loop body, second half: get_weather(city), event_data, append; after the
\* last event the result page
WeatherLookup ==
    /\ pc = "weather"
    /\ \E resp \in WeatherResponses :
        LET w == get_weather(city, resp)
            event == events[idx]
            venue == VenuesOf(event)[1]
            appended == Append(events_with_playlists,
                               event_data(event, venue, city, w.ret, latlng,
                                          artist_info))
        IN  /\ net' = net \o w.net
            /\ calls' = Append(calls, [fn |-> "get_weather", arg |-> city,
                                       event |-> idx, provider |-> resp,
                                       requests |-> Len(w.net),
                                       raised |-> w.raised, ret |-> w.ret])
            /\ IF w.raised # ""
               THEN /\ raised' = w.raised
                    /\ pc' = "crashed"
                    /\ UNCHANGED <<events_with_playlists, idx, result>>
               ELSE /\ raised' = raised
                    /\ events_with_playlists' = appended
                    /\ IF idx < Len(events)
                       THEN /\ idx' = idx + 1
                            /\ pc' = "geocode"
                            /\ result' = result
                       ELSE /\ idx' = idx
                            /\ pc' = "done"
                            /\ result' = RenderSuccess(appended, artist_name,
                                                       artist_info, top_tracks)
    /\ UNCHANGED <<method, form, artist_name, artist_info, top_tracks, events,
                   city, latlng>>

Next ==
    \/ Request
    \/ ArtistLookup
    \/ TrackLookup
    \/ PlaylistLookup
    \/ EventLookup
    \/ GeoLookup
    \/ WeatherLookup

Spec == Init /\ [][Next]_vars

-----------------------------------------------------------------------------
(* Vocabulary of the properties *)

Ended == pc \in {"done", "crashed"}

CallsOf(f) == {i \in DOMAIN calls : calls[i].fn = f}

RequestsTo(p) == {i \in DOMAIN net : net[i].provider = p}

IsBlank(s) == \A i \in 1..Len(s) : s[i] \in Whitespace

\* the event list EventLookup returned, <<>> before it returned
ReturnedEvents ==
    IF CallsOf("get_events") = {}
    THEN <<>>
    ELSE calls[CHOOSE i \in CallsOf("get_events") : TRUE].ret

\* what ArtistLookup returned, None before it returned
ReturnedIdentity ==
    IF CallsOf("get_artist_info") = {}
    THEN None
    ELSE calls[CHOOSE i \in CallsOf("get_artist_info") : TRUE].ret

\* what TrackLookup returned, <<>> when it was not called
ReturnedTracks ==
    IF CallsOf("get_top_tracks") = {}
    THEN <<>>
    ELSE calls[CHOOSE i \in CallsOf("get_top_tracks") : TRUE].ret

\* the playlist random.choice selected, as an optional value
SelectedPlaylist ==
    IF CallsOf("random.choice") = {}
    THEN <<>>
    ELSE <<calls[CHOOSE i \in CallsOf("random.choice") : TRUE].ret>>

\* the identity with the selected playlist attached
ResolvedIdentity ==
    IF ReturnedIdentity = None
    THEN None
    ELSE [ReturnedIdentity EXCEPT !.playlist = SelectedPlaylist]

NoCoordinates == [lat |-> <<>>, lng |-> <<>>]

NotSpecifiedSnapshot ==
    [description |-> CIUDAD_NO_ESPECIFICADA, temperature |-> NA]

UnavailableSnapshot ==
    [description |-> DATOS_NO_DISPONIBLES, temperature |-> NA]

\* a successful weather answer with both fields the code reads
WellFormed(resp) ==
    /\ resp.status = "ok"
    /\ resp.weather # <<>>
    /\ resp.weather[1] # <<>>
    /\ resp.weather[1][1].description # <<>>
    /\ resp.main # <<>>
    /\ resp.main[1].temp # <<>>

ThreeShapes == {"EmptyInput", "NoEventsFound", "Success"}

-----------------------------------------------------------------------------
(* Properties *)

\* C1: every POST ends in one of the result shapes EmptyInput, NoEventsFound
\* or Success, whatever the providers answer; no lookup failure ends the
\* request with an uncaught exception.
C1_AlwaysAResultShape ==
    (method = "POST" /\ Ended) =>
        /\ pc = "done"
        /\ raised = ""
        /\ result.kind \in ThreeShapes

\* C2: a POST whose artist name is absent, empty or whitespace-only ends with
\* EmptyInput, and no lookup was invoked and no network request was issued.
C2_EmptyInputNoCalls ==
    (pc # "start" /\ method = "POST" /\ IsBlank(Get(form, <<>>))) =>
        /\ pc = "done"
        /\ result = RenderEmptyInput
        /\ calls = <<>>
        /\ net = <<>>

C2_Witness ==
    /\ pc = "done"
    /\ method = "POST"
    /\ form = << <<" ", "\t">> >>
    /\ result.kind = "EmptyInput"
    /\ net = <<>>

\* C3: once EventLookup has returned the empty sequence the request ends
\* with NoEventsFound, whether or not an identity was found; the result
\* carries the identity and the top tracks the lookups returned, and neither
\* geocoding nor weather was called.
C3_NoEventsFound ==
    \A i \in CallsOf("get_events") :
        calls[i].ret = <<>> =>
            /\ pc = "done"
            /\ result.kind = "NoEventsFound"
            /\ result.artist_name = artist_name
            /\ result.artist_info = ResolvedIdentity
            /\ result.top_tracks = ReturnedTracks
            /\ CallsOf("geocode") = {}
            /\ CallsOf("get_weather") = {}
            /\ RequestsTo("google_geocode") = {}
            /\ RequestsTo("openweather") = {}

C3_Witness ==
    /\ pc = "done"
    /\ CallsOf("get_events") # {}
    /\ ReturnedEvents = <<>>
    /\ result.kind = "NoEventsFound"
    /\ result.artist_info # None
    /\ result.artist_info.playlist = <<P2>>
    /\ result.top_tracks = <<"t1", "t2">>

\* C4: when EventLookup returned N events, 0 < N <= 9, the request ends with
\* Success whose events are N entries, the i-th assembled from the i-th raw
\* event, for every geocoding and weather outcome.
C4_OneEventPerRawEvent ==
    (Ended /\ Len(ReturnedEvents) > 0 /\ Len(ReturnedEvents) <= MAX_RESULTS) =>
        /\ result.kind = "Success"
        /\ Len(result.events) = Len(ReturnedEvents)
        /\ \A k \in 1..Len(ReturnedEvents) :
              /\ VenuesOf(ReturnedEvents[k]) # <<>>
              /\ result.events[k].city = CityOf(VenuesOf(ReturnedEvents[k])[1])
              /\ result.events[k].date = DateOf(ReturnedEvents[k])
              /\ result.events[k].tickets_url = Get(ReturnedEvents[k].url, NO_URL)

\* C5: get_weather called with a real city never raises and returns a fully
\* populated snapshot; on a transport failure or a malformed answer it
\* returns the "Datos no disponibles" / "N/A" snapshot.
C5_WeatherAlwaysPopulated ==
    \A i \in CallsOf("get_weather") :
        (calls[i].arg # "" /\ calls[i].arg # CIUDAD_DESCONOCIDA) =>
            /\ calls[i].raised = ""
            /\ calls[i].ret # NoSnapshot
            /\ ~WellFormed(calls[i].provider) => calls[i].ret = UnavailableSnapshot

\* C6: for an event whose record omits the city no provider is queried: no
\* geocoding or weather request carries the sentinel city, and the event's
\* coordinates are absent.
C6_SentinelNeverQueried ==
    /\ \A i \in RequestsTo("google_geocode") : net[i].arg # CIUDAD_DESCONOCIDA
    /\ \A i \in RequestsTo("openweather") : net[i].arg # CIUDAD_DESCONOCIDA
    /\ \A k \in DOMAIN events_with_playlists :
          events_with_playlists[k].city = CIUDAD_DESCONOCIDA =>
              events_with_playlists[k].location = NoCoordinates

\* C7: get_weather called with the empty city or with the sentinel city
\* issues no request and returns the "Ciudad no especificada" / "N/A"
\* snapshot, whatever the weather provider would have answered.
C7_NoQueryForUnknownCity ==
    /\ \A i \in CallsOf("get_weather") :
          calls[i].arg \in {"", CIUDAD_DESCONOCIDA} =>
              /\ calls[i].requests = 0
              /\ calls[i].raised = ""
              /\ calls[i].ret = NotSpecifiedSnapshot
    /\ \A i \in RequestsTo("openweather") :
          net[i].arg \notin {"", CIUDAD_DESCONOCIDA}

C7_Witness ==
    /\ \E i \in CallsOf("get_weather") :
          /\ calls[i].arg = ""
          /\ WellFormed(calls[i].provider)
          /\ calls[i].ret = NotSpecifiedSnapshot
    /\ \E j \in CallsOf("get_weather") :
          /\ calls[j].arg = CIUDAD_DESCONOCIDA
          /\ WellFormed(calls[j].provider)
          /\ calls[j].ret = NotSpecifiedSnapshot

\* C8: when ArtistLookup returned None, neither TrackLookup nor
\* PlaylistLookup is called, EventLookup is called, and a non-empty event
\* list ends in Success without identity, with no top tracks and with one
\* assembled event per raw event.
C8_NoArtistStillSucceeds ==
    (Ended /\ CallsOf("get_artist_info") # {} /\ ReturnedIdentity = None) =>
        /\ CallsOf("get_top_tracks") = {}
        /\ CallsOf("get_playlists_by_genre") = {}
        /\ CallsOf("get_events") # {}
        /\ ReturnedEvents # <<>> =>
              /\ result.kind = "Success"
              /\ result.artist_info = None
              /\ result.top_tracks = <<>>
              /\ Len(result.events) = Len(ReturnedEvents)

\* C9: the playlist is selected at most once, from the candidates returned
\* for the first genre of the identity, and no other genre is queried; every
\* event of a Success result carries the selected playlist, the one attached
\* to the identity, and carries none when none was selected.
C9_OnePlaylistForAllEvents ==
    /\ Cardinality(CallsOf("random.choice")) <= 1
    /\ Cardinality(CallsOf("get_playlists_by_genre")) <= 1
    /\ \A i \in CallsOf("get_playlists_by_genre") :
          /\ ReturnedIdentity # None
          /\ Get(ReturnedIdentity.genres, <<>>) # <<>>
          /\ calls[i].arg = Get(ReturnedIdentity.genres, <<>>)[1]
    /\ \A i \in CallsOf("random.choice") :
          /\ i > 1
          /\ calls[i - 1].fn = "get_playlists_by_genre"
          /\ calls[i].arg = calls[i - 1].ret
          /\ \E k \in 1..Len(calls[i].arg) : calls[i].ret = calls[i].arg[k]
    /\ result.kind = "Success" =>
          /\ result.artist_info = ResolvedIdentity
          /\ \A k \in 1..Len(result.events) :
                result.events[k].playlist = Get(SelectedPlaylist, EMPTY_DICT)

C9_Witness ==
    /\ result.kind = "Success"
    /\ Len(result.events) >= 2
    /\ SelectedPlaylist = <<P2>>
    /\ result.artist_info.playlist = <<P2>>
    /\ \A k \in 1..Len(result.events) : result.events[k].playlist = P2

\* C10: each of ArtistLookup, TrackLookup, PlaylistLookup and EventLookup is
\* invoked at most once, in that order, and for each returned event GeoLookup
\* and then WeatherLookup is invoked exactly once, both before any call for
\* the next event.
C10_EachLookupOnceInOrder ==
    /\ \A f \in {"get_artist_info", "get_top_tracks",
                 "get_playlists_by_genre", "get_events"} :
          Cardinality(CallsOf(f)) <= 1
    /\ \A i \in CallsOf("get_artist_info"), j \in CallsOf("get_top_tracks") : i < j
    /\ \A i \in CallsOf("get_top_tracks"), j \in CallsOf("get_playlists_by_genre") : i < j
    /\ \A i \in DOMAIN calls, j \in CallsOf("get_events") :
          calls[i].fn \in {"get_artist_info", "get_top_tracks",
                           "get_playlists_by_genre"} => i < j
    /\ Ended =>
          \A k \in 1..Len(ReturnedEvents) :
              LET geo == {i \in CallsOf("geocode") : calls[i].event = k}
                  wx == {i \in CallsOf("get_weather") : calls[i].event = k}
              IN  /\ Cardinality(geo) = 1
                  /\ Cardinality(wx) = 1
                  /\ \A i \in geo, j \in wx : i < j
                  /\ \A j \in DOMAIN calls :
                        (calls[j].fn \in {"geocode", "get_weather"}
                         /\ calls[j].event > k) =>
                            \A i \in geo \cup wx : i < j

====
